---- MODULE Spec2Model ----
(***************************************************************************)
(* The 8254 timer of pintos-kaist (devices/timer.c) as a state machine.    *)
(*                                                                         *)
(* One CPU.  Thread context runs the public entry points of timer.c one    *)
(* statement at a time; the timer interrupt is delivered between two       *)
(* statements whenever interrupts are enabled, runs the handler to         *)
(* completion and may preempt the running thread on return.  The scheduler *)
(* operations timer.c calls (thread_tick, thread_sleep, wake_up) live in   *)
(* threads/thread.c and are modelled from their contract.                  *)
(***************************************************************************)
EXTENDS Integers, Sequences, FiniteSets, TLC

VARIABLES
  ticks,           \* static int64_t ticks
  global_tick,     \* static int64_t global_tick (the wake watermark)
  loops_per_tick,  \* static unsigned loops_per_tick
  intr_level,      \* the CPU's interrupt flag: "INTR_ON" or "INTR_OFF"
  halted,          \* TRUE once an ASSERT has failed (kernel PANIC)
  cur,             \* the running thread, or "idle"
  pc,              \* pc[t]: the statement thread t executes next
  fr,              \* fr[t]: the locals of the functions thread t is inside
  last,            \* last[t]: the last value timer_ticks() returned to t
  sleep_list,      \* the scheduler's waiting set: sleeping thread -> deadline
  isr,             \* the last timer interrupt: its steps in order, each with
                   \* the value it wrote, passed or read
  delivered,       \* number of timer interrupts delivered since boot
  tick_len         \* busy_wait iterations that fit in one tick (0: not measured)

vars == <<ticks, global_tick, loops_per_tick, intr_level, halted, cur, pc, fr,
          last, sleep_list, isr, delivered, tick_len>>

---------------------------------------------------------------------------
(* Bounds of the model.                                                    *)

\* Past this tick count no new blocking sleep is started, and ticks are
\* delivered only while somebody still waits for one.
MaxTicks == 3

\* timer_sleep is called with -1 .. MaxSleep ticks.
MaxSleep == 2

\* Width of `unsigned', scaled down from 32 so that TLC's integers hold it.
UnsignedBits == 14

Threads == {"main", "worker"}

SleepArgs == (0 - 1) .. MaxSleep

\* Durations given to timer_msleep, timer_usleep, timer_nsleep.
MsArgs == {0 - 5, 0, 10 * MaxSleep}
UsArgs == {1, 500}
NsArgs == {200000, 10000000}

\* No sleeper is still due at this tick count: each thread registers at most
\* one sleep once the counter has passed MaxTicks.
TickLimit == MaxTicks + Cardinality(Threads) * (MaxSleep + 2)

\* Hardware speeds: busy_wait iterations per tick.
TickLens == {1000, 1537, 2048, 3000, 20000}

---------------------------------------------------------------------------
(* Program constants.                                                      *)

\* INT64_MAX, the "no pending wake" sentinel.  TLC's integers are 32 bits
\* wide; the largest of them stands for 2^63 - 1.  No tick count or deadline
\* of the model comes near it.
INT64_MAX == 2147483647

TIMER_FREQ == 100

MIN(a, b) == IF a < b THEN a ELSE b

Abs(x) == IF x < 0 THEN 0 - x ELSE x

\* C's integer division: truncates toward zero.
CDiv(a, b) ==
  IF (a < 0) = (b < 0) THEN Abs(a) \div Abs(b) ELSE 0 - (Abs(a) \div Abs(b))

Pow2(n) == 2 ^ n

\* unsigned arithmetic: x << 1, x >> k, x | y.
Shl1(x) == (2 * x) % Pow2(UnsignedBits)

Shr(x, k) == x \div Pow2(k)

RECURSIVE BitOr(_, _)
BitOr(x, y) ==
  IF x = 0 THEN y
  ELSE IF y = 0 THEN x
  ELSE (IF x % 2 = 1 \/ y % 2 = 1 THEN 1 ELSE 0) + 2 * BitOr(x \div 2, y \div 2)

---------------------------------------------------------------------------
(* State after boot.                                                       *)

\* The locals of the functions a thread is inside; NoFrame outside timer.c.
NoFrame ==
  [ old_level |-> "INTR_ON",   \* timer_sleep: old_level
    tt_old    |-> "INTR_ON",   \* timer_ticks: old_level
    t         |-> 0,           \* timer_ticks: t
    start     |-> 0,           \* timer_sleep, too_many_loops: start
    arg       |-> 0,           \* timer_sleep: the parameter ticks
    then      |-> 0,           \* timer_elapsed: then
    num       |-> 0,           \* real_time_sleep: num
    denom     |-> 0,           \* real_time_sleep: denom
    rt        |-> 0,           \* real_time_sleep: the local ticks
    loops     |-> 0,           \* busy_wait, too_many_loops: loops
    res       |-> FALSE,       \* too_many_loops: the value returned
    high_bit  |-> 0,           \* timer_calibrate: high_bit
    test_bit  |-> 0,           \* timer_calibrate: test_bit
    entry     |-> "INTR_ON",   \* interrupt level when the call was entered
    ret       |-> << >> ]      \* return sites of the calls in progress

Init ==
  /\ ticks = 0
  /\ global_tick = INT64_MAX
  /\ loops_per_tick = 0
  /\ intr_level = "INTR_ON"
  /\ halted = FALSE
  /\ cur = "main"
  /\ pc = [t \in Threads |-> "idle"]
  /\ fr = [t \in Threads |-> NoFrame]
  /\ last = [t \in Threads |-> 0]
  /\ sleep_list = {}
  /\ isr = << >>
  /\ delivered = 0
  /\ tick_len = 0

---------------------------------------------------------------------------
(* The scheduler, as timer.c uses it (threads/thread.c).                   *)

Sleepers(sl) == {e[1] : e \in sl}

Deadlines(sl) == {e[2] : e \in sl}

SetMin(S) == CHOOSE x \in S : \A y \in S : x <= y

\* A thread is inside timer_calibrate or the too_many_loops it calls.
InCalibrate(t) ==
  pc[t] \in {"cal_assert", "cal_while", "cal_while_ret", "cal_for",
             "cal_for_ret", "tml_start", "tml_spin", "tml_busy", "tml_ret"}

\* The interrupt flag a thread resumes with: a thread that went to sleep in
\* thread_sleep comes back inside it, interrupts still off; a preempted
\* thread was interrupted with interrupts on; the idle thread enables them.
ResumeLevel(u) ==
  IF u # "idle" /\ pc[u] = "ts_restore" THEN "INTR_OFF" ELSE "INTR_ON"

\* The threads the scheduler may run next, given the waiting set.
Ready(sl) == (Threads \ Sleepers(sl)) \ {cur}

\* thread_sleep(deadline): enqueue the running thread until the deadline,
\* block it and run another thread (the idle thread if none is ready).
thread_sleep(t, deadline) ==
  LET sl == sleep_list \cup {<<t, deadline>>} IN
  /\ sleep_list' = sl
  /\ \E u \in (IF Ready(sl) = {} THEN {"idle"} ELSE Ready(sl)) :
       /\ cur' = u
       /\ intr_level' = ResumeLevel(u)

\* wake_up(now): resume every thread whose deadline has passed and reset
\* the watermark to the smallest remaining deadline, or to "no pending wake".
Remaining(sl, now) == {e \in sl : e[2] > now}

NextWatermark(sl) == IF sl = {} THEN INT64_MAX ELSE SetMin(Deadlines(sl))

wake_up(now) ==
  /\ sleep_list' = Remaining(sleep_list, now)
  /\ global_tick' = NextWatermark(Remaining(sleep_list, now))

---------------------------------------------------------------------------
(* The timer interrupt.                                                    *)

\* The comparison the other way round: if (ticks < global_tick).
SweepDueReversed(watermark, now) == now < watermark

\* if (global_tick < ticks)
SweepDue(watermark, now) == watermark < now

\* A handler that leaves the counter alone.
NotIncremented(x) == x

\* ticks++
Incremented(x) == x + 1

\* The handler; sweep is what the call wake_up (ticks) does.
Handler(sweep) ==
  LET now == Incremented(ticks)
      due == SweepDue(global_tick, now) IN
  /\ ticks' = now
  /\ isr' = << <<"ticks++", now>>, <<"thread_tick", now>>,
               <<"global_tick < ticks", global_tick>> >>
             \o (IF due THEN << <<"wake_up", now>> >> ELSE << >>)
  /\ IF due THEN sweep ELSE UNCHANGED <<sleep_list, global_tick>>

\* A handler that checks the watermark and sweeps before the counter is
\* incremented and thread_tick () is called.
timer_interrupt_sweep_first ==
  LET now == Incremented(ticks)
      due == SweepDue(global_tick, ticks) IN
  /\ ticks' = now
  /\ isr' = << <<"global_tick < ticks", global_tick>> >>
             \o (IF due THEN << <<"wake_up", ticks>> >> ELSE << >>)
             \o << <<"ticks++", now>>, <<"thread_tick", now>> >>
  /\ IF due THEN wake_up(ticks) ELSE UNCHANGED <<sleep_list, global_tick>>

timer_interrupt == Handler(wake_up(Incremented(ticks)))

\* During calibration the straight-line statements take no time: a tick
\* arrives while too_many_loops waits for one, and every tick_len iterations
\* of the busy_wait it measures.  Elsewhere ticks arrive at any time, in the
\* model as long as a sleep can still start or a sleeper still waits.
TicksIn(loops) == loops \div tick_len

TickAllowed ==
  IF cur # "idle" /\ InCalibrate(cur)
  THEN \/ pc[cur] = "tml_spin" /\ ticks = fr[cur].start
       \/ pc[cur] = "tml_busy" /\ ticks - fr[cur].start < TicksIn(fr[cur].loops)
  ELSE \/ ticks < MaxTicks
       \/ sleep_list # {} /\ ticks < TickLimit

\* Delivery of one timer interrupt: the handler runs to completion with
\* interrupts off, and on return the scheduler may preempt the thread.
Deliver(handler) ==
  /\ ~halted
  /\ intr_level = "INTR_ON"
  /\ TickAllowed
  /\ handler
  /\ delivered' = delivered + 1
  /\ LET rdy == (Threads \ Sleepers(sleep_list')) \ {cur}
         next == IF cur = "idle" THEN (IF rdy = {} THEN {"idle"} ELSE rdy)
                 ELSE IF InCalibrate(cur) THEN {cur}
                 ELSE {cur} \cup rdy IN
     \E u \in next :
       /\ cur' = u
       /\ intr_level' = IF u = cur THEN "INTR_ON" ELSE ResumeLevel(u)
  /\ UNCHANGED <<loops_per_tick, halted, pc, fr, last, tick_len>>

Tick == Deliver(timer_interrupt)

---------------------------------------------------------------------------
(* Thread context.                                                         *)

Running(t) == ~halted /\ cur = t

\* Return to the caller: the statement after the innermost call.
ReturnSite(t) == Head(fr[t].ret)

\* An unconditional intr_enable () in place of the restore.
Enabled(old_level) == "INTR_ON"

\* The level intr_set_level (old_level) restores.
Restored(old_level) == old_level

\* Code outside timer.c masks and unmasks interrupts around its calls.
intr_disable(t) ==
  /\ Running(t) /\ pc[t] = "idle" /\ intr_level = "INTR_ON"
  /\ intr_level' = "INTR_OFF"
  /\ UNCHANGED <<ticks, global_tick, loops_per_tick, halted, cur, pc, fr, last,
                 sleep_list, isr, delivered, tick_len>>

intr_enable(t) ==
  /\ Running(t) /\ pc[t] = "idle" /\ intr_level = "INTR_OFF"
  /\ intr_level' = "INTR_ON"
  /\ UNCHANGED <<ticks, global_tick, loops_per_tick, halted, cur, pc, fr, last,
                 sleep_list, isr, delivered, tick_len>>

(* timer_ticks *)

call_timer_ticks(t) ==
  /\ Running(t) /\ pc[t] = "idle"
  /\ pc' = [pc EXCEPT ![t] = "tt_disable"]
  /\ fr' = [fr EXCEPT ![t].ret = <<"tt_top">>, ![t].entry = intr_level]
  /\ UNCHANGED <<ticks, global_tick, loops_per_tick, intr_level, halted, cur,
                 last, sleep_list, isr, delivered, tick_len>>

\* A timer_ticks () that reads the counter without masking interrupts.
tt_disable_unmasked(t) ==
  /\ Running(t) /\ pc[t] = "tt_disable"
  /\ fr' = [fr EXCEPT ![t].tt_old = intr_level]
  /\ pc' = [pc EXCEPT ![t] = "tt_read"]
  /\ UNCHANGED <<ticks, global_tick, loops_per_tick, intr_level, halted, cur,
                 last, sleep_list, isr, delivered, tick_len>>

\* enum intr_level old_level = intr_disable ();
tt_disable(t) ==
  /\ Running(t) /\ pc[t] = "tt_disable"
  /\ fr' = [fr EXCEPT ![t].tt_old = intr_level]
  /\ intr_level' = "INTR_OFF"
  /\ pc' = [pc EXCEPT ![t] = "tt_read"]
  /\ UNCHANGED <<ticks, global_tick, loops_per_tick, halted, cur, last,
                 sleep_list, isr, delivered, tick_len>>

\* int64_t t = ticks;
tt_read(t) ==
  /\ Running(t) /\ pc[t] = "tt_read"
  /\ fr' = [fr EXCEPT ![t].t = ticks]
  /\ pc' = [pc EXCEPT ![t] = "tt_restore"]
  /\ UNCHANGED <<ticks, global_tick, loops_per_tick, intr_level, halted, cur,
                 last, sleep_list, isr, delivered, tick_len>>

\* intr_set_level (old_level); barrier (); return t;
tt_restore(t) ==
  /\ Running(t) /\ pc[t] = "tt_restore"
  /\ intr_level' = Restored(fr[t].tt_old)
  /\ pc' = [pc EXCEPT ![t] = ReturnSite(t)]
  /\ fr' = [fr EXCEPT ![t].ret = Tail(@), ![t].tt_old = "INTR_ON"]
  /\ UNCHANGED <<ticks, global_tick, loops_per_tick, halted, cur, last,
                 sleep_list, isr, delivered, tick_len>>

\* The caller outside timer.c receives the value.
tt_top(t) ==
  /\ Running(t) /\ pc[t] = "tt_top"
  /\ last' = [last EXCEPT ![t] = fr[t].t]
  /\ fr' = [fr EXCEPT ![t] = NoFrame]
  /\ pc' = [pc EXCEPT ![t] = "idle"]
  /\ UNCHANGED <<ticks, global_tick, loops_per_tick, intr_level, halted, cur,
                 sleep_list, isr, delivered, tick_len>>

(* timer_elapsed *)

\* then is a value once returned by timer_ticks ().
call_timer_elapsed(t) ==
  /\ Running(t) /\ pc[t] = "idle"
  /\ pc' = [pc EXCEPT ![t] = "tt_disable"]
  /\ fr' = [fr EXCEPT ![t].then = last[t], ![t].ret = <<"te_sub">>,
                      ![t].entry = intr_level]
  /\ UNCHANGED <<ticks, global_tick, loops_per_tick, intr_level, halted, cur,
                 last, sleep_list, isr, delivered, tick_len>>

\* return timer_ticks () - then;
Elapsed(now, then) == now - then

te_sub(t) ==
  /\ Running(t) /\ pc[t] = "te_sub"
  /\ last' = [last EXCEPT ![t] = fr[t].then + Elapsed(fr[t].t, fr[t].then)]
  /\ fr' = [fr EXCEPT ![t] = NoFrame]
  /\ pc' = [pc EXCEPT ![t] = "idle"]
  /\ UNCHANGED <<ticks, global_tick, loops_per_tick, intr_level, halted, cur,
                 sleep_list, isr, delivered, tick_len>>

(* timer_sleep *)

\* start + ticks
Deadline(start, n) == start + n

\* A registration that forgets start in the watermark: MIN (global_tick, ticks).
LoweredWithoutStart(watermark, start, n) == MIN(watermark, n)

\* A registration that overwrites the watermark: global_tick = start + ticks.
Overwritten(watermark, start, n) == Deadline(start, n)

\* global_tick = MIN((global_tick), (start + ticks));
Lowered(watermark, start, n) == MIN(watermark, Deadline(start, n))

call_timer_sleep(t) ==
  /\ Running(t) /\ pc[t] = "idle"
  /\ ticks < MaxTicks
  /\ \E n \in SleepArgs :
       fr' = [fr EXCEPT ![t].arg = n, ![t].ret = <<"idle">>,
                        ![t].entry = intr_level]
  /\ pc' = [pc EXCEPT ![t] = "ts_disable"]
  /\ UNCHANGED <<ticks, global_tick, loops_per_tick, intr_level, halted, cur,
                 last, sleep_list, isr, delivered, tick_len>>

\* A timer_sleep that returns at once when there is nothing to wait for:
\* if (ticks <= 0) return;
ts_disable_early_return(t) ==
  /\ Running(t) /\ pc[t] = "ts_disable"
  /\ IF fr[t].arg <= 0
     THEN /\ fr' = [fr EXCEPT ![t] = NoFrame]
          /\ pc' = [pc EXCEPT ![t] = ReturnSite(t)]
          /\ UNCHANGED intr_level
     ELSE /\ fr' = [fr EXCEPT ![t].old_level = intr_level,
                              ![t].ret = <<"ts_start">> \o @]
          /\ intr_level' = "INTR_OFF"
          /\ pc' = [pc EXCEPT ![t] = "tt_disable"]
  /\ UNCHANGED <<ticks, global_tick, loops_per_tick, halted, cur, last,
                 sleep_list, isr, delivered, tick_len>>

\* enum intr_level old_level = intr_disable ();  then call timer_ticks ().
ts_disable(t) ==
  /\ Running(t) /\ pc[t] = "ts_disable"
  /\ fr' = [fr EXCEPT ![t].old_level = intr_level, ![t].ret = <<"ts_start">> \o @]
  /\ intr_level' = "INTR_OFF"
  /\ pc' = [pc EXCEPT ![t] = "tt_disable"]
  /\ UNCHANGED <<ticks, global_tick, loops_per_tick, halted, cur, last,
                 sleep_list, isr, delivered, tick_len>>

\* int64_t start = timer_ticks ();
ts_start(t) ==
  /\ Running(t) /\ pc[t] = "ts_start"
  /\ fr' = [fr EXCEPT ![t].start = fr[t].t]
  /\ pc' = [pc EXCEPT ![t] = "ts_min"]
  /\ UNCHANGED <<ticks, global_tick, loops_per_tick, intr_level, halted, cur,
                 last, sleep_list, isr, delivered, tick_len>>

ts_min(t) ==
  /\ Running(t) /\ pc[t] = "ts_min"
  /\ global_tick' = Lowered(global_tick, fr[t].start, fr[t].arg)
  /\ pc' = [pc EXCEPT ![t] = "ts_block"]
  /\ UNCHANGED <<ticks, loops_per_tick, intr_level, halted, cur, fr, last,
                 sleep_list, isr, delivered, tick_len>>

\* thread_sleep (start + ticks);
ts_block(t) ==
  /\ Running(t) /\ pc[t] = "ts_block"
  /\ thread_sleep(t, Deadline(fr[t].start, fr[t].arg))
  /\ pc' = [pc EXCEPT ![t] = "ts_restore"]
  /\ UNCHANGED <<ticks, global_tick, loops_per_tick, halted, fr, last, isr,
                 delivered, tick_len>>

\* intr_set_level (old_level);  and return.
ts_restore(t) ==
  /\ Running(t) /\ pc[t] = "ts_restore"
  /\ intr_level' = Restored(fr[t].old_level)
  /\ pc' = [pc EXCEPT ![t] = ReturnSite(t)]
  /\ fr' = [fr EXCEPT ![t] = NoFrame]
  /\ UNCHANGED <<ticks, global_tick, loops_per_tick, halted, cur, last,
                 sleep_list, isr, delivered, tick_len>>

(* real_time_sleep and its entry points *)

\* A conversion that rounds up instead of down.
RtTicksRoundedUp(num, denom) == CDiv(num * TIMER_FREQ + denom - 1, denom)

\* int64_t ticks = num * TIMER_FREQ / denom;
RtTicks(num, denom) == CDiv(num * TIMER_FREQ, denom)

\* The numerator scaled down before the multiplication:
\* loops_per_tick * (num / 1000) * TIMER_FREQ / (denom / 1000).
SpinLoopsNumScaledFirst(lpt, num, denom) ==
  CDiv(lpt * CDiv(num, 1000) * TIMER_FREQ, CDiv(denom, 1000))

\* loops_per_tick * num / 1000 * TIMER_FREQ / (denom / 1000)
SpinLoops(lpt, num, denom) ==
  CDiv(CDiv(lpt * num, 1000) * TIMER_FREQ, CDiv(denom, 1000))

\* The ASSERT left out.
NoAssert(level) == TRUE

\* ASSERT (intr_get_level () == INTR_ON);
AssertIntrOn(level) == level = "INTR_ON"

real_time_sleep(t, num, denom) ==
  /\ Running(t) /\ pc[t] = "idle"
  /\ RtTicks(num, denom) > 0 => ticks < MaxTicks
  /\ fr' = [fr EXCEPT ![t].num = num, ![t].denom = denom,
                      ![t].rt = RtTicks(num, denom)]
  /\ pc' = [pc EXCEPT ![t] = "rts_assert"]
  /\ UNCHANGED <<ticks, global_tick, loops_per_tick, intr_level, halted, cur,
                 last, sleep_list, isr, delivered, tick_len>>

timer_msleep(t) == \E ms \in MsArgs : real_time_sleep(t, ms, 1000)

timer_usleep(t) == \E us \in UsArgs : real_time_sleep(t, us, 1000 * 1000)

timer_nsleep(t) == \E ns \in NsArgs : real_time_sleep(t, ns, 1000 * 1000 * 1000)

\* The ASSERT, then: if (ticks > 0) timer_sleep (ticks); else busy_wait (...).
rts_assert(t) ==
  /\ Running(t) /\ pc[t] = "rts_assert"
  /\ IF ~AssertIntrOn(intr_level)
     THEN /\ halted' = TRUE
          /\ UNCHANGED <<pc, fr>>
     ELSE IF fr[t].rt > 0
     THEN /\ pc' = [pc EXCEPT ![t] = "ts_disable"]
          /\ fr' = [fr EXCEPT ![t].arg = fr[t].rt, ![t].ret = <<"idle">>,
                              ![t].entry = intr_level]
          /\ UNCHANGED halted
     ELSE IF fr[t].denom % 1000 # 0
     THEN /\ halted' = TRUE
          /\ UNCHANGED <<pc, fr>>
     ELSE /\ pc' = [pc EXCEPT ![t] = "busy_wait"]
          /\ fr' = [fr EXCEPT ![t].loops =
                      SpinLoops(loops_per_tick, fr[t].num, fr[t].denom)]
          /\ UNCHANGED halted
  /\ UNCHANGED <<ticks, global_tick, loops_per_tick, intr_level, cur, last,
                 sleep_list, isr, delivered, tick_len>>

\* busy_wait (loops): while (loops-- > 0) barrier ();  and return.
busy_wait(t) ==
  /\ Running(t) /\ pc[t] = "busy_wait"
  /\ pc' = [pc EXCEPT ![t] = "idle"]
  /\ fr' = [fr EXCEPT ![t] = NoFrame]
  /\ UNCHANGED <<ticks, global_tick, loops_per_tick, intr_level, halted, cur,
                 last, sleep_list, isr, delivered, tick_len>>

(* timer_calibrate and too_many_loops *)

\* The iteration count a refinement step tests: high_bit | test_bit.
TestLoops(high_bit, acc, test_bit) == BitOr(high_bit, test_bit)

\* The geometric phase tries the count itself, not its double.
TrialLoopsUndoubled(lpt) == lpt

\* too_many_loops (loops_per_tick << 1): the count the geometric phase tries.
TrialLoops(lpt) == Shl1(lpt)

\* No check after the doubling.
NoAssertNonZero(lpt) == TRUE

\* ASSERT (loops_per_tick != 0);
AssertNonZero(lpt) == lpt # 0

\* A loop that goes on to test high_bit >> 10 as well.
RefineMoreInclusive(test_bit, high_bit) == test_bit # Shr(high_bit, 11)

\* test_bit != high_bit >> 10: the condition of the refinement loop.
RefineMore(test_bit, high_bit) == test_bit # Shr(high_bit, 10)

\* Called once, by the boot thread, before anything else has used the timer.
\* The speed of the machine shows in the measurements that follow.
call_timer_calibrate(t) ==
  /\ Running(t) /\ pc[t] = "idle" /\ t = "main"
  /\ ticks = 0 /\ loops_per_tick = 0 /\ tick_len = 0 /\ sleep_list = {}
  /\ \A u \in Threads : pc[u] = "idle"
  /\ \E n \in TickLens : tick_len' = n
  /\ pc' = [pc EXCEPT ![t] = "cal_assert"]
  /\ UNCHANGED <<ticks, global_tick, loops_per_tick, intr_level, halted, cur,
                 fr, last, sleep_list, isr, delivered>>

\* ASSERT (intr_get_level () == INTR_ON);  loops_per_tick = 1u << 10;
cal_assert(t) ==
  /\ Running(t) /\ pc[t] = "cal_assert"
  /\ IF ~AssertIntrOn(intr_level)
     THEN /\ halted' = TRUE
          /\ UNCHANGED <<pc, loops_per_tick>>
     ELSE /\ loops_per_tick' = Pow2(10)
          /\ pc' = [pc EXCEPT ![t] = "cal_while"]
          /\ UNCHANGED halted
  /\ UNCHANGED <<ticks, global_tick, intr_level, cur, fr, last, sleep_list,
                 isr, delivered, tick_len>>

\* while (!too_many_loops (loops_per_tick << 1))
cal_while(t) ==
  /\ Running(t) /\ pc[t] = "cal_while"
  /\ fr' = [fr EXCEPT ![t].loops = TrialLoops(loops_per_tick),
                      ![t].ret = <<"cal_while_ret">>]
  /\ pc' = [pc EXCEPT ![t] = "tml_start"]
  /\ UNCHANGED <<ticks, global_tick, loops_per_tick, intr_level, halted, cur,
                 last, sleep_list, isr, delivered, tick_len>>

\* Loop body: loops_per_tick <<= 1; ASSERT (loops_per_tick != 0);
\* loop exit: high_bit = loops_per_tick; test_bit = high_bit >> 1.
cal_while_ret(t) ==
  /\ Running(t) /\ pc[t] = "cal_while_ret"
  /\ IF ~fr[t].res
     THEN /\ loops_per_tick' = Shl1(loops_per_tick)
          /\ IF ~AssertNonZero(Shl1(loops_per_tick))
             THEN halted' = TRUE /\ UNCHANGED pc
             ELSE pc' = [pc EXCEPT ![t] = "cal_while"] /\ UNCHANGED halted
          /\ fr' = [fr EXCEPT ![t].loops = 0, ![t].start = 0, ![t].res = FALSE]
     ELSE /\ fr' = [fr EXCEPT ![t].high_bit = loops_per_tick,
                              ![t].test_bit = Shr(loops_per_tick, 1),
                              ![t].loops = 0, ![t].start = 0, ![t].res = FALSE]
          /\ pc' = [pc EXCEPT ![t] = "cal_for"]
          /\ UNCHANGED <<loops_per_tick, halted>>
  /\ UNCHANGED <<ticks, global_tick, intr_level, cur, last, sleep_list, isr,
                 delivered, tick_len>>

\* for (...; test_bit != high_bit >> 10; ...)
\*   if (!too_many_loops (high_bit | test_bit))
cal_for(t) ==
  /\ Running(t) /\ pc[t] = "cal_for"
  /\ IF RefineMore(fr[t].test_bit, fr[t].high_bit)
     THEN /\ fr' = [fr EXCEPT ![t].loops = TestLoops(fr[t].high_bit,
                                             loops_per_tick, fr[t].test_bit),
                              ![t].ret = <<"cal_for_ret">>]
          /\ pc' = [pc EXCEPT ![t] = "tml_start"]
     ELSE /\ fr' = [fr EXCEPT ![t] = NoFrame]
          /\ pc' = [pc EXCEPT ![t] = "idle"]
  /\ UNCHANGED <<ticks, global_tick, loops_per_tick, intr_level, halted, cur,
                 last, sleep_list, isr, delivered, tick_len>>

\* loops_per_tick |= test_bit;  and the step test_bit >>= 1.
cal_for_ret(t) ==
  /\ Running(t) /\ pc[t] = "cal_for_ret"
  /\ loops_per_tick' = IF ~fr[t].res THEN BitOr(loops_per_tick, fr[t].test_bit)
                       ELSE loops_per_tick
  /\ fr' = [fr EXCEPT ![t].test_bit = Shr(@, 1),
                      ![t].loops = 0, ![t].start = 0, ![t].res = FALSE]
  /\ pc' = [pc EXCEPT ![t] = "cal_for"]
  /\ UNCHANGED <<ticks, global_tick, intr_level, halted, cur, last, sleep_list,
                 isr, delivered, tick_len>>

\* int64_t start = ticks;
tml_start(t) ==
  /\ Running(t) /\ pc[t] = "tml_start"
  /\ fr' = [fr EXCEPT ![t].start = ticks]
  /\ pc' = [pc EXCEPT ![t] = "tml_spin"]
  /\ UNCHANGED <<ticks, global_tick, loops_per_tick, intr_level, halted, cur,
                 last, sleep_list, isr, delivered, tick_len>>

\* while (ticks == start) barrier ();  start = ticks;
tml_spin(t) ==
  /\ Running(t) /\ pc[t] = "tml_spin"
  /\ ticks # fr[t].start
  /\ fr' = [fr EXCEPT ![t].start = ticks]
  /\ pc' = [pc EXCEPT ![t] = "tml_busy"]
  /\ UNCHANGED <<ticks, global_tick, loops_per_tick, intr_level, halted, cur,
                 last, sleep_list, isr, delivered, tick_len>>

\* busy_wait (loops); it ends once its iterations have taken their time.
tml_busy(t) ==
  /\ Running(t) /\ pc[t] = "tml_busy"
  /\ ticks - fr[t].start >= TicksIn(fr[t].loops)
  /\ pc' = [pc EXCEPT ![t] = "tml_ret"]
  /\ UNCHANGED <<ticks, global_tick, loops_per_tick, intr_level, halted, cur,
                 fr, last, sleep_list, isr, delivered, tick_len>>

\* barrier (); return start != ticks;
tml_ret(t) ==
  /\ Running(t) /\ pc[t] = "tml_ret"
  /\ fr' = [fr EXCEPT ![t].res = (fr[t].start # ticks), ![t].ret = Tail(@)]
  /\ pc' = [pc EXCEPT ![t] = ReturnSite(t)]
  /\ UNCHANGED <<ticks, global_tick, loops_per_tick, intr_level, halted, cur,
                 last, sleep_list, isr, delivered, tick_len>>

---------------------------------------------------------------------------
(* The specification.                                                      *)

ThreadStep(t) ==
       \/ intr_disable(t)
       \/ intr_enable(t)
       \/ call_timer_ticks(t)
       \/ tt_disable(t)
       \/ tt_read(t)
       \/ tt_restore(t)
       \/ tt_top(t)
       \/ call_timer_elapsed(t)
       \/ te_sub(t)
       \/ call_timer_sleep(t)
       \/ ts_disable(t)
       \/ ts_start(t)
       \/ ts_min(t)
       \/ ts_block(t)
       \/ ts_restore(t)
       \/ timer_msleep(t)
       \/ timer_usleep(t)
       \/ timer_nsleep(t)
       \/ rts_assert(t)
       \/ busy_wait(t)
       \/ call_timer_calibrate(t)
       \/ cal_assert(t)
       \/ cal_while(t)
       \/ cal_while_ret(t)
       \/ cal_for(t)
       \/ cal_for_ret(t)
       \/ tml_start(t)
       \/ tml_spin(t)
       \/ tml_busy(t)
       \/ tml_ret(t)

Next ==
  \/ Tick
  \/ \E t \in Threads : ThreadStep(t)

Spec == Init /\ [][Next]_vars

\* Fair delivery of timer interrupts.  Callers enter with interrupts enabled,
\* so they are masked only inside timer_ticks and timer_sleep; the CPU keeps
\* executing the thread it runs, so every masked section ends; and the 8254
\* keeps its interrupt pending while the CPU masks it, so an interrupt that
\* can be delivered again and again is delivered.
Continue(t) ==
  \/ tt_disable(t)
  \/ tt_read(t)
  \/ tt_restore(t)
  \/ tt_top(t)
  \/ te_sub(t)
  \/ ts_disable(t)
  \/ ts_start(t)
  \/ ts_min(t)
  \/ ts_block(t)
  \/ ts_restore(t)
  \/ rts_assert(t)
  \/ busy_wait(t)

FairNext ==
  \/ Tick
  \/ \E t \in Threads :
       \/ call_timer_ticks(t)
       \/ call_timer_elapsed(t)
       \/ call_timer_sleep(t)
       \/ timer_msleep(t)
       \/ timer_usleep(t)
       \/ timer_nsleep(t)
       \/ Continue(t)

FairSpec ==
  /\ Init
  /\ [][FairNext]_vars
  /\ WF_vars(\E t \in Threads : Continue(t))
  /\ SF_vars(Tick)

---------------------------------------------------------------------------
(* Properties.                                                             *)

IsTick == delivered' # delivered

Swept == \E i \in DOMAIN isr : isr[i][1] = "wake_up"

\* The watermark the last interrupt compared the counter with.
Checked == isr[3][2]

InRegistration(t) == pc[t] \in {"ts_start", "ts_min", "ts_block"}

\* C1: the tick counter equals the number of timer interrupts delivered since
\* boot: every interrupt adds exactly 1, no step of thread context changes
\* it, and the values timer_ticks () returns to a thread never decrease.
C1_CounterCountsInterrupts ==
  /\ [](ticks = delivered)
  /\ [][/\ IsTick => ticks' = ticks + 1 /\ delivered' = delivered + 1
        /\ ~IsTick => ticks' = ticks
        /\ \A t \in Threads : last'[t] >= last[t]]_vars

\* After calibration and further ticks a thread has read the counter.
C1_Witness ==
  /\ loops_per_tick # 0
  /\ last["main"] = ticks
  /\ ticks = delivered
  /\ ticks > MaxTicks

\* C2: on every timer interrupt the wake-sweep is invoked if and only if the
\* incremented counter is >= the watermark.
C2_SweepIffCounterAtLeastWatermark ==
  [][IsTick => ((\E i \in DOMAIN isr' : isr'[i][1] = "wake_up")
                  <=> ticks' >= global_tick)]_vars

\* C3: on every tick where the wake-sweep is invoked, somebody sleeps and the
\* counter is >= the smallest outstanding deadline.
C3_NoEarlySweep ==
  [][IsTick /\ (\E i \in DOMAIN isr' : isr'[i][1] = "wake_up")
       => /\ sleep_list # {}
          /\ ticks' >= SetMin(Deadlines(sleep_list))]_vars

\* A sweep on the first tick past a deadline that lay in the future.
C3_Witness ==
  /\ isr # << >>
  /\ Swept
  /\ Checked >= MaxSleep
  /\ ticks = Checked + 1

\* C4: the watermark is <= every outstanding deadline; it leaves the
\* "no pending wake" sentinel only by a registration in timer_sleep; and no
\* step of thread context raises it.
C4_WatermarkBelowDeadlines ==
  /\ [](\A d \in Deadlines(sleep_list) : global_tick <= d)
  /\ [][/\ global_tick = INT64_MAX /\ global_tick' # INT64_MAX
             => \E t \in Threads : pc[t] = "ts_min" /\ pc'[t] = "ts_block"
        /\ ~IsTick => global_tick' <= global_tick]_vars

\* Two sleepers; the one with the smaller deadline registered after the last
\* tick check, which still saw the larger deadline as the watermark.
C4_Witness ==
  /\ isr # << >>
  /\ Cardinality(sleep_list) = 2
  /\ \E d \in Deadlines(sleep_list) : Checked = d /\ global_tick < d
  /\ global_tick = SetMin(Deadlines(sleep_list))

\* C5: registration is atomic with respect to the timer interrupt.  From the
\* read of the counter to the enqueue the thread keeps running with
\* interrupts masked and the counter keeps the value read; no tick is
\* delivered in between; the deadline enqueued is the counter at enqueue time
\* plus n; and a tick never finds a deadline below the watermark.
C5_RegistrationAtomic ==
  /\ [](\A t \in Threads : InRegistration(t) =>
          /\ cur = t
          /\ intr_level = "INTR_OFF"
          /\ fr[t].t = ticks
          /\ pc[t] # "ts_start" => fr[t].start = ticks)
  /\ [][/\ IsTick => /\ \A t \in Threads : ~InRegistration(t)
                     /\ \A d \in Deadlines(sleep_list) : global_tick <= d
        /\ \A t \in Threads :
             pc[t] = "ts_block" /\ pc'[t] = "ts_restore"
               => /\ sleep_list' = sleep_list \cup {<<t, ticks + fr[t].arg>>}
                  /\ global_tick <= ticks + fr[t].arg]_vars

\* A thread that entered timer_sleep with interrupts on is about to enqueue:
\* the nested timer_ticks () left them masked.
C5_Witness ==
  \E t \in Threads :
    /\ pc[t] = "ts_block"
    /\ fr[t].old_level = "INTR_ON"
    /\ intr_level = "INTR_OFF"
    /\ ticks > 0
    /\ sleep_list # {}

\* C6: under fair delivery of timer interrupts every sleeping thread is
\* eventually resumed, and a thread leaves the waiting set only in a timer
\* interrupt whose handler invoked the wake-sweep.
C6_SleeperEventuallyResumed ==
  /\ \A t \in Threads :
       (t \in Sleepers(sleep_list)) ~> (t \notin Sleepers(sleep_list))
  /\ [][\A t \in Threads :
          t \in Sleepers(sleep_list) /\ t \notin Sleepers(sleep_list')
            => /\ IsTick
               /\ \E i \in DOMAIN isr' : isr'[i] = <<"wake_up", ticks'>>]_vars

\* A sleeper whose deadline lay in the future has been resumed by a sweep and
\* runs again inside timer_sleep.
C6_Witness ==
  /\ isr # << >>
  /\ Swept
  /\ Checked > 0
  /\ \E t \in Threads :
       /\ cur = t
       /\ pc[t] = "ts_restore"
       /\ Deadline(fr[t].start, fr[t].arg) = Checked

InTimerSleep(t) ==
  \/ pc[t] \in {"ts_disable", "ts_start", "ts_min", "ts_block", "ts_restore"}
  \/ pc[t] \in {"tt_disable", "tt_read", "tt_restore"}
       /\ fr[t].ret = <<"ts_start", "idle">>

\* C7: for num >= 0 and interrupts enabled, real_time_sleep computes
\* ticks = floor (num * TIMER_FREQ / denom); with ticks > 0 it calls
\* timer_sleep with exactly that count and does not busy-wait; with ticks = 0
\* it busy-waits, registers no sleep and leaves the watermark and the waiting
\* set unchanged, spinning zero iterations for a zero duration.
\* timer_msleep (1000) converts to 100 ticks.
C7_RealTimeSleepPath ==
  /\ [](/\ RtTicks(1000, 1000) = 100
        /\ \A t \in Threads :
             /\ pc[t] = "rts_assert" /\ fr[t].num >= 0
                  => fr[t].rt = (fr[t].num * TIMER_FREQ) \div fr[t].denom
             /\ InTimerSleep(t) /\ fr[t].denom # 0 /\ fr[t].num >= 0
                  => /\ fr[t].arg = (fr[t].num * TIMER_FREQ) \div fr[t].denom
                     /\ fr[t].arg > 0
             /\ pc[t] = "busy_wait" /\ fr[t].num >= 0
                  => /\ (fr[t].num * TIMER_FREQ) \div fr[t].denom = 0
                     /\ fr[t].num = 0 => fr[t].loops = 0)
  /\ [][\A t \in Threads :
          /\ (/\ ~IsTick /\ Running(t) /\ pc[t] = "rts_assert"
              /\ intr_level = "INTR_ON" /\ fr[t].num >= 0)
               => IF (fr[t].num * TIMER_FREQ) \div fr[t].denom > 0
                  THEN pc'[t] = "ts_disable"
                  ELSE /\ pc'[t] = "busy_wait"
                       /\ UNCHANGED <<global_tick, sleep_list>>
          /\ ~IsTick /\ Running(t) /\ pc[t] = "busy_wait"
               => /\ pc'[t] = "idle"
                  /\ UNCHANGED <<global_tick, sleep_list>>]_vars

\* timer_usleep (1) spins in one thread while the other sleeps the MaxSleep
\* ticks its timer_msleep converted to.
C7_Witness ==
  /\ pc["main"] = "busy_wait"
  /\ fr["main"].num = 1 /\ fr["main"].denom = 1000000
  /\ "worker" \in Sleepers(sleep_list)
  /\ fr["worker"].num = 10 * MaxSleep /\ fr["worker"].denom = 1000
  /\ fr["worker"].arg = MaxSleep

\* C8, as claimed: the spin count is
\* LoopsPerTick * (numerator / 1000) * tick_frequency / (denominator / 1000).
C8_SpinCountNumeratorScaledFirst ==
  \A t \in Threads :
    pc[t] = "busy_wait" /\ fr[t].num >= 0
      => fr[t].loops = (loops_per_tick * (fr[t].num \div 1000) * TIMER_FREQ)
                          \div (fr[t].denom \div 1000)

\* C8, amended: the spin count is
\* ((LoopsPerTick * numerator) / 1000) * tick_frequency / (denominator / 1000),
\* every division truncating: the numerator is multiplied by LoopsPerTick
\* before the division by 1000.  A negative numerator spins no iteration.
C8_SpinCountLeftToRight ==
  \A t \in Threads :
    pc[t] = "busy_wait"
      => IF fr[t].num >= 0
         THEN fr[t].loops =
                (((loops_per_tick * fr[t].num) \div 1000) * TIMER_FREQ)
                   \div (fr[t].denom \div 1000)
         ELSE fr[t].loops <= 0

\* timer_usleep (500) on a calibrated machine spins a positive count.
C8_Witness ==
  \E t \in Threads :
    /\ pc[t] = "busy_wait"
    /\ fr[t].num = 500 /\ fr[t].denom = 1000000
    /\ loops_per_tick >= Pow2(10)
    /\ fr[t].loops > 0

\* C9: timer_calibrate and real_time_sleep entered with interrupts disabled
\* halt the system: the call changes nothing but the caller's position, the
\* ASSERT then halts with the watermark, the waiting set, loops_per_tick and
\* every thread's position unchanged, and nothing happens after a halt.
C9_DisabledEntryHalts ==
  [][/\ \A t \in Threads :
          /\ (/\ Running(t) /\ pc[t] = "idle" /\ intr_level = "INTR_OFF"
              /\ pc'[t] \in {"rts_assert", "cal_assert"})
               => UNCHANGED <<ticks, global_tick, loops_per_tick, sleep_list,
                              intr_level, halted, cur>>
          /\ (/\ Running(t) /\ pc[t] \in {"rts_assert", "cal_assert"}
              /\ intr_level = "INTR_OFF")
               => /\ halted'
                  /\ UNCHANGED <<ticks, global_tick, loops_per_tick,
                                 sleep_list, pc, fr>>
     /\ ~halted]_vars

\* A real-time sleep entered with interrupts disabled on a calibrated
\* machine has halted the system.
C9_Witness ==
  /\ halted
  /\ intr_level = "INTR_OFF"
  /\ \E t \in Threads : pc[t] = "rts_assert"
  /\ loops_per_tick >= Pow2(10)

\* C10: a tick arriving every tick_len iterations, too_many_loops (n) is
\* true exactly when n >= tick_len.  Whenever 1024 iterations fit in a tick,
\* the loops_per_tick timer_calibrate leaves fits in a tick.
C10_CalibratedCountFitsInTick ==
  pc["main"] = "idle" /\ loops_per_tick # 0 /\ Pow2(10) < tick_len
    => loops_per_tick < tick_len

\* The model's tick limit never keeps a tick from a sleeper.
TickLimitNotReached == sleep_list # {} => ticks < TickLimit - 1

---------------------------------------------------------------------------
(* Boot: the main thread calibrates the timer, nothing else runs yet.      *)

CalStep(t) ==
  \/ call_timer_calibrate(t)
  \/ cal_assert(t)
  \/ cal_while(t)
  \/ cal_while_ret(t)
  \/ cal_for(t)
  \/ cal_for_ret(t)
  \/ tml_start(t)
  \/ tml_spin(t)
  \/ tml_busy(t)
  \/ tml_ret(t)

CalNext ==
  \/ Tick
  \/ intr_disable("main")
  \/ intr_enable("main")
  \/ CalStep("main")

CalSpec == Init /\ [][CalNext]_vars

\* The interrupt is delivered whenever it stays deliverable, and the thread
\* calibrating goes on whenever it can.
CalFairSpec ==
  Init /\ [][CalNext]_vars /\ WF_vars(CalStep("main")) /\ WF_vars(Tick)

---------------------------------------------------------------------------
(* Calibration: the refinement loop.                                       *)

\* The bit k places below the high bit.
Below(high_bit, k) == Shr(high_bit, k)

\* A step of the thread calibrating, from the named place.
CalStepFrom(place) ==
  /\ pc["main"] = place
  /\ pc'["main"] # place \/ halted' # halted

---------------------------------------------------------------------------
(* Calibration: the geometric phase.                                       *)

\* The largest power of two an unsigned holds.
TopBit == Pow2(UnsignedBits - 1)

\* On this machine every power of two an unsigned holds fits within a tick.
DoublingAlwaysFits == tick_len > TopBit

\* C12: each doubling that fits either doubles loops_per_tick without wrap
\* or, when the count wraps to zero, halts the system on the spot; where the
\* doubling always fits, calibration never leaves the geometric phase other
\* than by halting; and timer_calibrate never returns with loops_per_tick
\* zero or wrapped.
C12_OverflowHalts ==
  [][ /\ (CalStepFrom("cal_while_ret") /\ ~fr["main"].res)
         => IF loops_per_tick = TopBit
            THEN /\ halted' /\ loops_per_tick' = 0
                 /\ pc'["main"] = "cal_while_ret"
            ELSE /\ ~halted' /\ pc'["main"] = "cal_while"
                 /\ loops_per_tick' = 2 * loops_per_tick
                 /\ loops_per_tick' <= TopBit
      /\ (tick_len' # 0 /\ tick_len' > TopBit)
         => pc'["main"] \in {"cal_assert", "cal_while", "cal_while_ret",
                             "tml_start", "tml_spin", "tml_busy", "tml_ret"}
      /\ (CalStepFrom("cal_for") /\ pc'["main"] = "idle")
         => /\ loops_per_tick' >= Pow2(10)
            /\ loops_per_tick' >= fr["main"].high_bit
            /\ loops_per_tick' < 2 * fr["main"].high_bit
            /\ fr["main"].high_bit <= TopBit ]_vars

\* The doubling has wrapped to zero and the system has halted.
C12_Witness ==
  /\ DoublingAlwaysFits
  /\ halted /\ loops_per_tick = 0
  /\ pc["main"] = "cal_while_ret"

---------------------------------------------------------------------------
(* Interrupt level across timer_ticks and timer_sleep.                     *)

\* Thread t takes a step from the named place.
StepFrom(t, place) == pc[t] = place /\ pc'[t] # place

\* C13: timer_ticks () and timer_sleep () each return with the interrupt
\* level they were entered with, whichever it was (the nested timer_ticks ()
\* of timer_sleep is entered and left with interrupts off), and no statement
\* of timer_ticks () changes the counter or the watermark.
C13_LevelRestoredOnExit ==
  [][ \A t \in Threads :
        /\ (cur' = t /\ pc'[t] = "ts_disable")
           => intr_level' = fr'[t].entry
        /\ (cur' = t /\ pc'[t] = "tt_disable"
              /\ Head(fr'[t].ret) \in {"tt_top", "te_sub"})
           => intr_level' = fr'[t].entry
        /\ (StepFrom(t, "tt_restore") /\ pc'[t] \in {"tt_top", "te_sub"})
           => intr_level' = fr[t].entry
        /\ (StepFrom(t, "tt_restore") /\ pc'[t] = "ts_start")
           => intr_level' = "INTR_OFF"
        /\ (StepFrom(t, "ts_restore") /\ pc'[t] = "idle")
           => intr_level' = fr[t].entry
        /\ (\/ StepFrom(t, "tt_disable") \/ StepFrom(t, "tt_read")
            \/ StepFrom(t, "tt_restore"))
           => UNCHANGED <<ticks, global_tick>> ]_vars

\* timer_ticks (), entered with interrupts off after some ticks, has
\* returned with interrupts off.
C13_Witness ==
  \E t \in Threads :
    /\ cur = t /\ pc[t] = "tt_top"
    /\ fr[t].entry = "INTR_OFF" /\ intr_level = "INTR_OFF"
    /\ fr[t].t > 0

---------------------------------------------------------------------------
(* Calibration: what the geometric phase finds.                            *)

\* too_many_loops as a threshold test: n iterations take a tick or more.
TooMany(n) == n >= tick_len

\* The powers of two an unsigned holds, from 1u << 10 up.
TrialPowers == { Pow2(k) : k \in 10 .. UnsignedBits - 1 }

\* The thread calibrating is in the geometric phase.
InGeometricPhase ==
  \/ pc["main"] \in {"cal_while", "cal_while_ret"}
  \/ /\ pc["main"] \in {"tml_start", "tml_spin", "tml_busy", "tml_ret"}
     /\ Head(fr["main"].ret) = "cal_while_ret"

\* C14: the geometric phase starts at 1024 and moves on to the next power of
\* two only after the double of each one before it has fitted in a tick; the
\* high bit the refinement uses is the first power of two p >= 1024 whose
\* double does not fit: too_many_loops (2p) is true and too_many_loops (2q)
\* is false for every power of two q with 1024 <= q < p.
C14_FirstPowerWhoseDoubleOverflowsTick ==
  /\ (InGeometricPhase /\ ~halted)
     => /\ loops_per_tick \in TrialPowers
        /\ \A q \in TrialPowers : q < loops_per_tick => ~TooMany(2 * q)
  /\ fr["main"].high_bit # 0
     => LET p == fr["main"].high_bit IN
        /\ p \in TrialPowers
        /\ TooMany(2 * p)
        /\ \A q \in TrialPowers : q < p => ~TooMany(2 * q)

\* The geometric phase has doubled at least once and handed its result to
\* the refinement.
C14_Witness ==
  /\ pc["main"] = "cal_for"
  /\ fr["main"].high_bit > Pow2(10)
  /\ fr["main"].test_bit = Shr(fr["main"].high_bit, 1)

---------------------------------------------------------------------------
(* Reads of the shared state from thread context.                          *)

\* The statements of thread context that read ticks: timer_ticks.
MaskedReads == {"tt_read"}

\* The statement of timer_sleep that reads and writes global_tick.
WatermarkUpdates == {"ts_min"}

\* The statements of too_many_loops that read ticks.
CalibrationReads == {"tml_start", "tml_spin", "tml_ret"}

\* C15 as stated: every read of the counter or the watermark from thread
\* context, those of too_many_loops included, and every read-modify-write
\* of the watermark is made with interrupts masked.
C15_AllThreadReadsMasked ==
  [][ \A t \in Threads :
        \A place \in MaskedReads \cup WatermarkUpdates \cup CalibrationReads :
          StepFrom(t, place) => intr_level = "INTR_OFF" ]_vars

\* C15 amended: the read of the counter in timer_ticks () and the
\* read-modify-write of the watermark in timer_sleep () are made with
\* interrupts masked; too_many_loops reads the counter with interrupts on.
C15_ReadsMaskedExceptCalibration ==
  [][ \A t \in Threads :
        /\ \A place \in MaskedReads \cup WatermarkUpdates :
             StepFrom(t, place) => intr_level = "INTR_OFF"
        /\ \A place \in CalibrationReads :
             StepFrom(t, place) => intr_level = "INTR_ON" ]_vars

\* too_many_loops has seen the counter change under its eyes: the read that
\* ended the alignment spin was made with interrupts on, after an interrupt.
C15_Witness ==
  /\ pc["main"] = "tml_busy"
  /\ intr_level = "INTR_ON"
  /\ fr["main"].start = ticks /\ ticks > 0

---------------------------------------------------------------------------
(* A scheduler whose wake-sweep leaves the watermark alone.                *)

\* wake_up that resumes the threads that are due and does not write
\* global_tick.
wake_up_stale(now) ==
  /\ sleep_list' = Remaining(sleep_list, now)
  /\ UNCHANGED global_tick

StaleTick == Deliver(Handler(wake_up_stale(Incremented(ticks))))

\* The statements of thread context that reach the watermark.
SleepStep(t) ==
  \/ intr_disable(t)
  \/ intr_enable(t)
  \/ call_timer_ticks(t)
  \/ tt_disable(t)
  \/ tt_read(t)
  \/ tt_restore(t)
  \/ tt_top(t)
  \/ call_timer_sleep(t)
  \/ ts_disable(t)
  \/ ts_start(t)
  \/ ts_min(t)
  \/ ts_block(t)
  \/ ts_restore(t)

StaleNext ==
  \/ StaleTick
  \/ \E t \in Threads : SleepStep(t)

StaleSpec == Init /\ [][StaleNext]_vars

\* C16: with a wake-sweep that leaves the watermark unchanged, nothing
\* raises the watermark, and once an interrupt has invoked the sweep the
\* next interrupt invokes it too, hence every later one.
C16_SweepOnEveryLaterTick ==
  [][ /\ global_tick' <= global_tick
      /\ (IsTick /\ Swept) => Swept' ]_vars

\* A second sweep in a row, invoked although no thread is waiting.
C16_Witness ==
  /\ Swept
  /\ sleep_list = {}
  /\ ticks >= Checked + 2

---------------------------------------------------------------------------
(* The order of the handler's statements.                                  *)

\* How many times the last interrupt ran the named statement.
TimesRun(trace, what) == Cardinality({i \in DOMAIN trace : trace[i][1] = what})

\* C17: every timer interrupt first increments the counter, then calls
\* thread_tick () exactly once, then compares the watermark with the counter
\* and, if the sweep is due, calls wake_up with the counter's value after
\* the increment; thread_tick () runs whether or not the sweep does.
C17_IncrementThenHookThenSweep ==
  [][ IsTick =>
        LET now == ticks + 1 IN
        /\ ticks' = now
        /\ Len(isr') \in {3, 4}
        /\ isr'[1] = <<"ticks++", now>>
        /\ isr'[2] = <<"thread_tick", now>>
        /\ isr'[3] = <<"global_tick < ticks", global_tick>>
        /\ Len(isr') = 4 => isr'[4] = <<"wake_up", now>>
        /\ TimesRun(isr', "thread_tick") = 1
        /\ TimesRun(isr', "ticks++") = 1 ]_vars

\* An interrupt after the first has run the hook and then the sweep, both
\* with the counter's new value.
C17_Witness ==
  /\ ticks >= 2
  /\ Len(isr) = 4
  /\ isr[2] = <<"thread_tick", ticks>>
  /\ isr[4] = <<"wake_up", ticks>>

---------------------------------------------------------------------------
(* Calibration ends.                                                       *)

\* timer_calibrate has been entered and has neither returned nor halted.
Calibrating == InCalibrate("main") /\ ~halted

\* timer_calibrate has returned, or the system has halted.
CalibrationOver == pc["main"] = "idle" \/ halted

\* C18: when the timer interrupt keeps being delivered, a call of
\* timer_calibrate ends, by returning or by halting the system: every
\* alignment spin, the geometric phase and the refinement phase come to an
\* end.
C18_CalibrationTerminates == Calibrating ~> CalibrationOver

\* timer_calibrate has returned, after the interrupts its measurements
\* waited for.
C18_Witness ==
  /\ pc["main"] = "idle" /\ ~halted
  /\ tick_len # 0
  /\ loops_per_tick >= Pow2(10)
  /\ delivered >= 10

---------------------------------------------------------------------------
(* timer_sleep with nothing to wait for.                                   *)

\* The threads asleep whose timer_sleep was given n <= 0.
PastDueSleepers == {t \in Sleepers(sleep_list) : fr[t].arg <= 0}

\* C19: timer_sleep (n) with n <= 0 does not return at once. It goes on to
\* read the counter t, leaves the watermark at most t + n, blocks the thread
\* with the deadline t + n, which is not after the current time, and the
\* next timer interrupt, whichever it is, invokes the sweep with a counter
\* past that deadline, so the thread is resumed by it.
C19_NonPositiveSleepStillRegisters ==
  [][ /\ \A t \in Threads :
           /\ StepFrom(t, "ts_disable") => pc'[t] = "tt_disable"
           /\ (StepFrom(t, "ts_block") /\ fr[t].arg <= 0)
              => LET d == ticks + fr[t].arg IN
                 /\ <<t, d>> \in sleep_list'
                 /\ global_tick' <= d /\ d <= ticks
                 /\ cur' # t /\ pc'[t] = "ts_restore"
      /\ (IsTick /\ PastDueSleepers # {})
         => /\ Swept'
            /\ isr'[4] = <<"wake_up", ticks + 1>>
            /\ \A t \in PastDueSleepers :
                 /\ t \notin Sleepers(sleep_list')
                 /\ \A e \in sleep_list : e[1] = t => e[2] < ticks' ]_vars

\* A thread whose timer_sleep had n <= 0 was blocked, was resumed by the
\* sweep of the next interrupt and is about to return.
C19_Witness ==
  \E t \in Threads :
    /\ cur = t /\ pc[t] = "ts_restore"
    /\ fr[t].arg <= 0
    /\ t \notin Sleepers(sleep_list)
    /\ Swept /\ ticks = fr[t].start + 1

====
